---- MODULE Spec2Model ----
(***************************************************************************)
(* A model of the textsynth client library: the validated parameter types, *)
(* the engine catalog, the text completion builder with its terminal       *)
(* operations, the untagged success/error envelope, and the text           *)
(* completion stream.                                                      *)
(***************************************************************************)
EXTENDS Integers, Sequences, FiniteSets, TLC

VARIABLES
    arg,        \* SpecParams: the inputs of a validating constructor
    made,       \* SpecParams: what the constructor returned
    wire,       \* SpecDecode: a JSON object received from the API
    decodedWire,\* SpecDecode: what decoding it as an UntaggedResult gave
    builder,    \* Spec: the TextCompletionBuilder
    pc,         \* Spec: "building", or "done" once a terminal operation consumed it
    op,         \* Spec: the terminal operation that ran, with its stop argument
    request,    \* Spec: the request that was sent
    outcome,    \* Spec: what the terminal operation returned
    stream      \* SpecStream: the stream returned by TextCompletionBuilder::stream

vars == <<arg, made, wire, decodedWire, builder, pc, op, request, outcome, stream>>

paramVars == <<arg, made>>
decodeVars == <<wire, decodedWire>>
builderVars == <<builder, pc, op, request, outcome>>
streamVars == <<stream>>

\* The variables of the specifications that are not running.
IdleParams == arg = [kind |-> "none"] /\ made = [some |-> FALSE, v |-> 0]
IdleDecode == wire = [kind |-> "none"] /\ decodedWire = [kind |-> "none"]
IdleBuilder ==
    /\ builder = [kind |-> "none"]
    /\ pc = "idle"
    /\ op = [kind |-> "none"]
    /\ request = [kind |-> "none"]
    /\ outcome = [kind |-> "none"]
IdleStream == stream = [st |-> "none"]

(***************************************************************************)
(* Bounds of the model.                                                    *)
(***************************************************************************)
\* Custom engine definitions carry the ceilings 1..MaxCustomCeiling.
MaxCustomCeiling == 3
\* The transport delivers at most MaxChunks items to one stream.
MaxChunks == 3
\* now_until is called with stop lists of at most MaxStop strings.
MaxStop == 2
\* The most calls of status_code() made on one Error.
MaxCalls == 2

(***************************************************************************)
(* Option<T>: None, or Some(x).                                            *)
(***************************************************************************)
None == [some |-> FALSE, v |-> 0]
NoneSeq == [some |-> FALSE, v |-> <<>>]
Some(x) == [some |-> TRUE, v |-> x]

(***************************************************************************)
(* f64 values: not-a-number, or a number counted in tenths.                *)
(***************************************************************************)
NaN == [nan |-> TRUE, t |-> 0]
F64(tenths) == [nan |-> FALSE, t |-> tenths]
\* a <= b on f64: every comparison with NaN is false.
F64Le(a, b) == ~a.nan /\ ~b.nan /\ a.t <= b.t

(***************************************************************************)
(* The engine catalog.                                                     *)
(***************************************************************************)
\* KnownEngineDefinition::MAX_TOKENS, the default of the trait.
DEFAULT_MAX_TOKENS == 1024
\* GptJ6B overrides MAX_TOKENS.
GptJ6B_MAX_TOKENS == 2048

CustomEngineDefinition(id, max_tokens) == [id |-> id, max_tokens |-> max_tokens]

GptJ6B == [tag |-> "GptJ6B", custom |-> CustomEngineDefinition("", 0)]
Boris6B == [tag |-> "Boris6B", custom |-> CustomEngineDefinition("", 0)]
FairseqGpt13B == [tag |-> "FairseqGpt13B", custom |-> CustomEngineDefinition("", 0)]
Custom(c) == [tag |-> "Custom", custom |-> c]

\* A plausible slip: FairseqGpt13B overriding MAX_TOKENS as GptJ6B does.
AS_CUSTOM_ENGINE_DEFINITION_two_overrides(tag) ==
    CASE tag = "GptJ6B" -> CustomEngineDefinition("gptj_6B", GptJ6B_MAX_TOKENS)
      [] tag = "Boris6B" -> CustomEngineDefinition("boris_6B", DEFAULT_MAX_TOKENS)
      [] tag = "FairseqGpt13B" ->
            CustomEngineDefinition("fairseq_gpt_13B", GptJ6B_MAX_TOKENS)

AS_CUSTOM_ENGINE_DEFINITION(tag) ==
    CASE tag = "GptJ6B" -> CustomEngineDefinition("gptj_6B", GptJ6B_MAX_TOKENS)
      [] tag = "Boris6B" -> CustomEngineDefinition("boris_6B", DEFAULT_MAX_TOKENS)
      [] tag = "FairseqGpt13B" ->
            CustomEngineDefinition("fairseq_gpt_13B", DEFAULT_MAX_TOKENS)

to_custom_engine_definition(d) ==
    IF d.tag = "Custom" THEN d.custom ELSE AS_CUSTOM_ENGINE_DEFINITION(d.tag)

\* A plausible slip: the name of the variant in place of its ID.
EngineDefinition_id_of_tag(d) == IF d.tag = "Custom" THEN d.custom.id ELSE d.tag

EngineDefinition_id(d) ==
    CASE d.tag = "GptJ6B" -> "gptj_6B"
      [] d.tag = "Boris6B" -> "boris_6B"
      [] d.tag = "FairseqGpt13B" -> "fairseq_gpt_13B"
      [] d.tag = "Custom" -> d.custom.id

EngineDefinition_max_tokens(d) == to_custom_engine_definition(d).max_tokens

\* The well-known engine definitions.
KnownEngineDefinitions == {GptJ6B, Boris6B, FairseqGpt13B}

\* The engine definitions the model draws from.
EngineDefinitions ==
    {GptJ6B, Boris6B, FairseqGpt13B}
        \cup {Custom(CustomEngineDefinition("custom", c)) : c \in 1..MaxCustomCeiling}

\* The token counts the model draws from: around every ceiling, and 0.
TokenValues ==
    {0} \cup UNION {{EngineDefinition_max_tokens(d) - 1, EngineDefinition_max_tokens(d),
                     EngineDefinition_max_tokens(d) + 1} : d \in EngineDefinitions}

(***************************************************************************)
(* ParameterTypes.                                                         *)
(***************************************************************************)
\* A plausible slip: the strict bound.
MaxTokens_new_strict(max_tokens, engine_definition) ==
    IF max_tokens < EngineDefinition_max_tokens(engine_definition)
        THEN Some(max_tokens)
        ELSE None

MaxTokens_new(max_tokens, engine_definition) ==
    IF max_tokens <= EngineDefinition_max_tokens(engine_definition)
        THEN Some(max_tokens)
        ELSE None

MaxTokens_inner(self) == self

(***************************************************************************)
(* JSON values, as far as the decoders tell them apart: an absent key,     *)
(* null, a number, a string, a boolean.                                    *)
(***************************************************************************)
Absent == [t |-> "absent", n |-> 0, s |-> "", b |-> FALSE]
JNull == [t |-> "null", n |-> 0, s |-> "", b |-> FALSE]
JNum(n) == [t |-> "num", n |-> n, s |-> "", b |-> FALSE]
JStr(s) == [t |-> "str", n |-> 0, s |-> s, b |-> FALSE]
JBool(b) == [t |-> "bool", n |-> 0, s |-> "", b |-> b]

\* A JSON object: the value under each key the decoders read (keys that no
\* decoder reads are ignored by serde and are left out).
JsonObject(text, reached_end, truncated_prompt, total_tokens, status, error) ==
    [text |-> text, reached_end |-> reached_end,
     truncated_prompt |-> truncated_prompt, total_tokens |-> total_tokens,
     status |-> status, error |-> error]

\* NonZeroU16 holds 1..U16_MAX.
U16_MAX == 65535

(***************************************************************************)
(* TextCompletion and Error, and their derived Deserialize.                *)
(***************************************************************************)
NoneBool == [some |-> FALSE, v |-> FALSE]

TextCompletion(text, reached_end, truncated_prompt, total_tokens) ==
    [text |-> text, reached_end |-> reached_end,
     truncated_prompt |-> truncated_prompt, total_tokens |-> total_tokens]

NoCompletion == TextCompletion("", FALSE, NoneBool, None)

\* status_code is #[serde(skip)]: an empty OnceCell.
Error(status, error) == [status |-> status, error |-> error, status_code |-> None]

NoError == Error(0, "")

\* Option<bool>: an absent key and null are None.
OptionBoolOk(j) == j.t \in {"absent", "null", "bool"}
OptionBool(j) == IF j.t = "bool" THEN Some(j.b) ELSE NoneBool

\* Option<usize>: an absent key and null are None; a negative number is no usize.
OptionUsizeOk(j) == j.t \in {"absent", "null"} \/ (j.t = "num" /\ j.n >= 0)
OptionUsize(j) == IF j.t = "num" THEN Some(j.n) ELSE None

\* Whether the object deserializes as a TextCompletion.
IsTextCompletion(o) ==
    /\ o.text.t = "str"
    /\ o.reached_end.t = "bool"
    /\ OptionBoolOk(o.truncated_prompt)
    /\ OptionUsizeOk(o.total_tokens)

DeserializeTextCompletion(o) ==
    TextCompletion(o.text.s, o.reached_end.b,
                   OptionBool(o.truncated_prompt), OptionUsize(o.total_tokens))

\* Whether the object deserializes as an Error.
IsError(o) ==
    /\ o.status.t = "num" /\ o.status.n >= 1 /\ o.status.n <= U16_MAX
    /\ o.error.t = "str"

DeserializeError(o) == Error(o.status.n, o.error.s)

\* The accessors of TextCompletion.
TextCompletion_text(self) == self.text
TextCompletion_reached_end(self) == self.reached_end
TextCompletion_truncated_prompt_or_true(self) ==
    IF self.truncated_prompt.some THEN self.truncated_prompt.v ELSE TRUE
\* self.truncated_prompt.unwrap_or(false)
TextCompletion_truncated_prompt(self) ==
    IF self.truncated_prompt.some THEN self.truncated_prompt.v ELSE FALSE
TextCompletion_total_tokens(self) == self.total_tokens

\* The four accessors read on one TextCompletion.
NoRead == [text |-> "", reached_end |-> FALSE, truncated_prompt |-> FALSE,
           total_tokens |-> None, message |-> ""]
ReadTextCompletion(self) ==
    [NoRead EXCEPT !.text = TextCompletion_text(self),
                   !.reached_end = TextCompletion_reached_end(self),
                   !.truncated_prompt = TextCompletion_truncated_prompt(self),
                   !.total_tokens = TextCompletion_total_tokens(self)]

\* StatusCode::from_u16: a status code is a number of three digits.
StatusCode_from_u16(src) == IF src < 100 \/ src >= 1000 THEN None ELSE Some(src)

\* Error::status_code: get_or_init on the OnceCell; the closure unwraps the
\* conversion with expect, which panics on None.  ran tells whether the closure
\* ran, self is the Error with its cell after the call.
Error_status_code(self) ==
    IF self.status_code.some
    THEN [panic |-> FALSE, code |-> self.status_code.v, ran |-> FALSE, self |-> self]
    ELSE LET converted == StatusCode_from_u16(self.status) IN
         IF converted.some
         THEN [panic |-> FALSE, code |-> converted.v, ran |-> TRUE,
               self |-> [self EXCEPT !.status_code = Some(converted.v)]]
         ELSE [panic |-> TRUE, code |-> 0, ran |-> TRUE, self |-> self]

\* Error::message
Error_message(self) == self.error

\* #[derive(Clone)]: every field is cloned, the OnceCell with what it holds.
Error_clone(self) ==
    [status |-> self.status, error |-> self.error, status_code |-> self.status_code]

\* #[derive(PartialEq)]: every field is compared, the OnceCell by what it holds.
Error_eq(self, other) ==
    /\ self.status = other.status
    /\ self.error = other.error
    /\ self.status_code = other.status_code

(***************************************************************************)
(* Result<T, E>, UntaggedResult<T, E> and serde_json::Result.              *)
(***************************************************************************)
Ok(value) == [tag |-> "Ok", value |-> value, error |-> NoError]
Err(error) == [tag |-> "Err", value |-> NoCompletion, error |-> error]

UntaggedOk(value) == [tag |-> "UntaggedResult::Ok", value |-> value, error |-> NoError]
UntaggedErr(error) ==
    [tag |-> "UntaggedResult::Err", value |-> NoCompletion, error |-> error]

\* impl From<Result<T, E>> for UntaggedResult<T, E>
UntaggedResult_from(result) ==
    IF result.tag = "Ok" THEN UntaggedOk(result.value) ELSE UntaggedErr(result.error)

\* A plausible slip: the arms swapped.
Result_from_swapped(untagged_result) ==
    IF untagged_result.tag = "UntaggedResult::Ok"
        THEN Err(untagged_result.error)
        ELSE Ok(untagged_result.value)

\* impl From<UntaggedResult<T, E>> for Result<T, E>
Result_from(untagged_result) ==
    IF untagged_result.tag = "UntaggedResult::Ok"
        THEN Ok(untagged_result.value)
        ELSE Err(untagged_result.error)

\* serde_json::Result<X>
JsonOk(x) == [tag |-> "Ok", inner |-> x]
\* The error itself is opaque: only that it is one matters.
JsonErr == [tag |-> "Err", inner |-> [tag |-> "", value |-> NoCompletion, error |-> NoError]]

\* result.map(f) on a serde_json::Result
JsonMapInto(result) ==
    IF result.tag = "Ok" THEN JsonOk(Result_from(result.inner)) ELSE JsonErr

\* #[serde(untagged)]: the variants are tried in declaration order, Ok(T) first;
\* an object matching neither is a serde_json error.
\* A plausible slip: the Err variant tried first.
DeserializeUntaggedResult_err_first(o) ==
    IF IsError(o) THEN JsonOk(UntaggedErr(DeserializeError(o)))
    ELSE IF IsTextCompletion(o) THEN JsonOk(UntaggedOk(DeserializeTextCompletion(o)))
    ELSE JsonErr

\* #[serde(untagged)]: the variants are tried in the order of declaration,
\* Ok(T) before Err(E).
DeserializeUntaggedResult(o) ==
    IF IsTextCompletion(o) THEN JsonOk(UntaggedOk(DeserializeTextCompletion(o)))
    ELSE IF IsError(o) THEN JsonOk(UntaggedErr(DeserializeError(o)))
    ELSE JsonErr

\* The JSON objects the model draws from.
TextValues == {Absent, JStr("a"), JNum(1)}
ReachedEndValues == {Absent, JBool(TRUE), JBool(FALSE), JNull}
TruncatedPromptValues == {Absent, JNull, JBool(TRUE), JNum(1)}
TotalTokensValues == {Absent, JNull, JNum(12), JNum(-1)}
StatusValues == {Absent, JNum(0), JNum(400), JNum(U16_MAX), JNum(U16_MAX + 1)}
ErrorValues == {Absent, JStr("Bad Request"), JNum(1)}

JsonObjects ==
    {JsonObject(a, b, c, d, e, f) :
        a \in TextValues, b \in ReachedEndValues, c \in TruncatedPromptValues,
        d \in TotalTokensValues, e \in StatusValues, f \in ErrorValues}

(***************************************************************************)
(* SpecDecode: one JSON object decoded as an UntaggedResult, converted     *)
(* into a Result, and converted back.                                      *)
(***************************************************************************)
InitDecode ==
    /\ wire \in JsonObjects
    /\ decodedWire = [stage |-> "received", parsed |-> JsonErr, result |-> JsonErr,
                      back |-> JsonErr, read |-> NoRead, codes |-> <<>>,
                      derivations |-> 0, aborted |-> FALSE,
                      cloned |-> FALSE, twin |-> NoError]
    /\ IdleParams /\ IdleBuilder /\ IdleStream

\* serde_json::from_slice::<UntaggedResult<_>>
Deserialize ==
    /\ decodedWire.stage = "received"
    /\ decodedWire' = [decodedWire EXCEPT !.stage = "parsed",
                                          !.parsed = DeserializeUntaggedResult(wire)]
    /\ UNCHANGED <<wire, paramVars, builderVars, streamVars>>

\* .map(Into::into): UntaggedResult into Result
IntoResult ==
    /\ decodedWire.stage = "parsed"
    /\ decodedWire' = [decodedWire EXCEPT !.stage = "result",
                                          !.result = JsonMapInto(decodedWire.parsed)]
    /\ UNCHANGED <<wire, paramVars, builderVars, streamVars>>

\* Result into UntaggedResult
IntoUntaggedResult ==
    /\ decodedWire.stage = "result"
    /\ decodedWire.result.tag = "Ok"
    /\ decodedWire' = [decodedWire EXCEPT !.stage = "back",
                         !.back = JsonOk(UntaggedResult_from(decodedWire.result.inner))]
    /\ UNCHANGED <<wire, paramVars, builderVars, streamVars>>

\* The caller reads the four accessors of a decoded TextCompletion.
ReadAccessors ==
    /\ decodedWire.stage = "result"
    /\ decodedWire.result.tag = "Ok" /\ decodedWire.result.inner.tag = "Ok"
    /\ decodedWire' = [decodedWire EXCEPT !.stage = "read",
                         !.read = ReadTextCompletion(decodedWire.result.inner.value)]
    /\ UNCHANGED <<wire, paramVars, builderVars, streamVars>>

\* The caller reads the message of a decoded Error.
ReadMessage ==
    /\ decodedWire.stage = "result"
    /\ decodedWire.result.tag = "Ok" /\ decodedWire.result.inner.tag = "Err"
    /\ decodedWire' = [decodedWire EXCEPT !.stage = "read",
                         !.read.message = Error_message(decodedWire.result.inner.error)]
    /\ UNCHANGED <<wire, paramVars, builderVars, streamVars>>

\* The caller calls status_code() on a decoded Error, once more each time.
StatusCode ==
    /\ decodedWire.stage \in {"result", "status"}
    /\ decodedWire.result.tag = "Ok" /\ decodedWire.result.inner.tag = "Err"
    /\ ~decodedWire.aborted
    /\ Len(decodedWire.codes) < MaxCalls
    /\ LET call == Error_status_code(decodedWire.result.inner.error) IN
         decodedWire' =
            [decodedWire EXCEPT
                !.stage = "status",
                !.result.inner.error = call.self,
                !.codes = IF call.panic THEN @ ELSE Append(@, call.code),
                !.derivations = IF call.ran THEN @ + 1 ELSE @,
                !.aborted = call.panic]
    /\ UNCHANGED <<wire, paramVars, builderVars, streamVars>>

\* The caller clones a decoded Error, before or after reading its status code.
CloneError ==
    /\ decodedWire.stage \in {"result", "status"}
    /\ decodedWire.result.tag = "Ok" /\ decodedWire.result.inner.tag = "Err"
    /\ ~decodedWire.aborted
    /\ ~decodedWire.cloned
    /\ decodedWire' = [decodedWire EXCEPT
                          !.cloned = TRUE,
                          !.twin = Error_clone(decodedWire.result.inner.error)]
    /\ UNCHANGED <<wire, paramVars, builderVars, streamVars>>

\* The caller calls status_code() on the clone.
StatusCodeOfClone ==
    /\ decodedWire.cloned
    /\ ~decodedWire.aborted
    /\ LET call == Error_status_code(decodedWire.twin) IN
         decodedWire' = [decodedWire EXCEPT !.twin = call.self,
                                            !.aborted = call.panic]
    /\ UNCHANGED <<wire, paramVars, builderVars, streamVars>>

NextDecode ==
    \/ Deserialize \/ IntoResult \/ IntoUntaggedResult
    \/ ReadAccessors \/ ReadMessage \/ StatusCode
    \/ CloneError \/ StatusCodeOfClone

SpecDecode == InitDecode /\ [][NextDecode]_vars

\* The success shape: text and reached_end present and well-typed, the optional
\* keys absent, null or well-typed.
SuccessShape(o) ==
    /\ o.text.t = "str" /\ o.reached_end.t = "bool"
    /\ o.truncated_prompt.t \in {"absent", "null", "bool"}
    /\ o.total_tokens.t \in {"absent", "null"}
            \/ (o.total_tokens.t = "num" /\ o.total_tokens.n >= 0)
\* The error shape: a status that fits a non-zero u16, and an error string,
\* in an object that is not of the success shape.
ErrorShape(o) ==
    /\ o.status.t = "num" /\ o.status.n \in 1..U16_MAX
    /\ o.error.t = "str"
    /\ ~SuccessShape(o)

\* C6: with no discriminant field, an object of the success shape decodes to Ok
\* with the wire text and reached_end, an object of the error shape decodes to
\* Err with the wire status and message, and the conversions between
\* UntaggedResult and Result keep the variant and the payload.
C6_UntaggedDecoding ==
    /\ (decodedWire.stage = "result" /\ SuccessShape(wire)) =>
          /\ decodedWire.result.tag = "Ok"
          /\ decodedWire.result.inner.tag = "Ok"
          /\ decodedWire.result.inner.value.text = wire.text.s
          /\ decodedWire.result.inner.value.reached_end = wire.reached_end.b
    /\ (decodedWire.stage = "result" /\ ErrorShape(wire)) =>
          /\ decodedWire.result.tag = "Ok"
          /\ decodedWire.result.inner.tag = "Err"
          /\ decodedWire.result.inner.error.status = wire.status.n
          /\ decodedWire.result.inner.error.error = wire.error.s
    /\ (decodedWire.stage \in {"result", "back"} /\ decodedWire.parsed.tag = "Ok") =>
          /\ decodedWire.result.tag = "Ok"
          /\ (decodedWire.result.inner.tag = "Ok")
                <=> (decodedWire.parsed.inner.tag = "UntaggedResult::Ok")
          /\ decodedWire.result.inner.value = decodedWire.parsed.inner.value
          /\ decodedWire.result.inner.error = decodedWire.parsed.inner.error
    /\ decodedWire.stage = "back" =>
          decodedWire.back = decodedWire.parsed

\* An error-shaped object was decoded to Err and converted back.
C6_Witness ==
    /\ decodedWire.stage = "back"
    /\ wire.text.t = "absent"
    /\ wire.status = JNum(400)
    /\ decodedWire.result.inner = Err(Error(400, "Bad Request"))

\* A success-shaped object was decoded to Ok.
C6_WitnessSuccess ==
    /\ decodedWire.stage = "result"
    /\ SuccessShape(wire) /\ wire.status.t = "absent"
    /\ decodedWire.result.inner.tag = "Ok"

\* C11: the accessors of a TextCompletion decoded from a success-shaped object
\* return the wire values: text() and reached_end() the wire fields,
\* total_tokens() Some(n) exactly when the wire carries total_tokens = n and
\* None otherwise, truncated_prompt() the wire value when present and false
\* when absent.
C11_AccessorsReturnWireValues ==
    (decodedWire.stage = "read" /\ SuccessShape(wire)) =>
        /\ decodedWire.read.text = wire.text.s
        /\ decodedWire.read.reached_end = wire.reached_end.b
        /\ decodedWire.read.total_tokens =
              (IF wire.total_tokens.t = "num" THEN Some(wire.total_tokens.n) ELSE None)
        /\ decodedWire.read.truncated_prompt =
              (IF wire.truncated_prompt.t = "bool" THEN wire.truncated_prompt.b
               ELSE FALSE)

\* The accessors were read on a record without truncated_prompt and without
\* total_tokens, such as a record before the last of a stream.
C11_Witness ==
    /\ decodedWire.stage = "read"
    /\ SuccessShape(wire)
    /\ wire.truncated_prompt.t = "absent" /\ wire.total_tokens.t = "absent"
    /\ decodedWire.read.total_tokens = None
    /\ decodedWire.read.truncated_prompt = FALSE

\* The accessors were read on a record carrying total_tokens and
\* truncated_prompt, such as the last record of a stream.
C11_WitnessLast ==
    /\ decodedWire.stage = "read"
    /\ wire.total_tokens = JNum(12) /\ wire.truncated_prompt = JBool(TRUE)
    /\ decodedWire.read.total_tokens = Some(12)
    /\ decodedWire.read.truncated_prompt = TRUE

\* The error fields: a status that fits a non-zero u16, and an error string.
ErrorFields(o) ==
    /\ o.status.t = "num" /\ o.status.n \in 1..U16_MAX
    /\ o.error.t = "str"

\* C21: the envelope is disambiguated in order, success first: an object with
\* the success fields decodes as success whatever its status and error keys
\* are, a domain error is produced exactly when the object is not of the
\* success shape and has the error fields with a non-zero 16-bit status, and
\* an object of neither shape, an error object of status 0 included, is a
\* failure of the JSON layer.
C21_SuccessFirst ==
    decodedWire.stage = "result" =>
        /\ SuccessShape(wire) =>
              /\ decodedWire.result.tag = "Ok"
              /\ decodedWire.result.inner =
                    Ok(TextCompletion(wire.text.s, wire.reached_end.b,
                                      OptionBool(wire.truncated_prompt),
                                      OptionUsize(wire.total_tokens)))
        /\ (decodedWire.result.tag = "Ok" /\ decodedWire.result.inner.tag = "Err")
              <=> (~SuccessShape(wire) /\ ErrorFields(wire))
        /\ (~SuccessShape(wire) /\ ~ErrorFields(wire)) => decodedWire.result.tag = "Err"

\* An object with the fields of both shapes was decoded as success.
C21_Witness ==
    /\ decodedWire.stage = "result"
    /\ wire.text = JStr("a") /\ wire.reached_end = JBool(TRUE)
    /\ wire.status = JNum(400) /\ wire.error = JStr("Bad Request")
    /\ decodedWire.result.tag = "Ok"
    /\ decodedWire.result.inner.tag = "Ok"
    /\ decodedWire.result.inner.value.text = "a"

\* An error object of status 0 was a failure of the JSON layer.
C21_WitnessStatusZero ==
    /\ decodedWire.stage = "result"
    /\ wire.text.t = "absent"
    /\ wire.status = JNum(0) /\ wire.error = JStr("Bad Request")
    /\ decodedWire.result.tag = "Err"

\* C12: on every Error decoded from the wire, status_code() returns without
\* aborting the code numerically equal to the raw status, the derivation runs
\* at most once per Error and later calls return the same code, and message()
\* returns the wire error string.
C12_StatusCodeTotalAndCached ==
    /\ (decodedWire.stage = "status" /\ ErrorShape(wire)) =>
          /\ ~decodedWire.aborted
          /\ decodedWire.codes # <<>>
          /\ \A i \in 1..Len(decodedWire.codes) : decodedWire.codes[i] = wire.status.n
          /\ decodedWire.derivations = 1
    /\ (decodedWire.stage = "read" /\ ErrorShape(wire)) =>
          decodedWire.read.message = wire.error.s

\* C22: the equality of two Errors depends only on status and message: an
\* Error and its clone compare equal after any reads of the status code on
\* either of them.
C22_EqualityIgnoresReads ==
    (decodedWire.stage \in {"result", "status"} /\ decodedWire.cloned) =>
        /\ decodedWire.twin.status = decodedWire.result.inner.error.status
        /\ decodedWire.twin.error = decodedWire.result.inner.error.error
        /\ Error_eq(decodedWire.result.inner.error, decodedWire.twin)

(***************************************************************************)
(* Bytes on the wire.  A byte string is a sequence of bytes; the bytes     *)
(* between the braces of a JSON object are one entry naming the object.    *)
(***************************************************************************)
\* The streamed chunk is cut 2 bytes before its end.
DELIMITER_LEN == 2

ContentIds == {"partial", "final", "error", "neither"}

\* The object each body names.
Content(id) ==
    CASE id = "partial" ->
            JsonObject(JStr("a"), JBool(FALSE), Absent, Absent, Absent, Absent)
      [] id = "final" ->
            JsonObject(JStr("b"), JBool(TRUE), Absent, JNum(12), Absent, Absent)
      [] id = "error" ->
            JsonObject(Absent, Absent, Absent, Absent, JNum(400), JStr("Bad Request"))
      [] id = "neither" ->
            JsonObject(Absent, Absent, Absent, Absent, Absent, JStr("Bad Request"))

Frame(id) == <<"{", id, "}">>
Delimiter == <<"\n", "\n">>

RECURSIVE SkipWhitespace(_)
\* serde_json skips the whitespace before a value.
SkipWhitespace(bytes) ==
    IF bytes # <<>> /\ Head(bytes) = "\n" THEN SkipWhitespace(Tail(bytes)) ELSE bytes

RECURSIVE SkipTrailingWhitespace(_)
\* Deserializer::end skips the whitespace after the value.
SkipTrailingWhitespace(bytes) ==
    IF bytes # <<>> /\ bytes[Len(bytes)] = "\n"
        THEN SkipTrailingWhitespace(SubSeq(bytes, 1, Len(bytes) - 1))
        ELSE bytes

\* Whether the bytes are one JSON object and nothing else but whitespace.
IsJsonObjectText(bytes) ==
    LET text == SkipTrailingWhitespace(SkipWhitespace(bytes))
    IN  Len(text) = 3 /\ text[1] = "{" /\ text[2] \in ContentIds /\ text[3] = "}"

JsonObjectOf(bytes) == Content(SkipWhitespace(bytes)[2])

\* serde_json::from_slice::<UntaggedResult<_>>(&bytes)
from_slice(bytes) ==
    IF IsJsonObjectText(bytes)
        THEN DeserializeUntaggedResult(JsonObjectOf(bytes))
        ELSE JsonErr

\* bytes.slice(..end) of a usize end computed as len - n: below zero the
\* subtraction overflows (a panic with overflow checks, otherwise a wrap above
\* len, which the range check of slice rejects with a panic).
Bytes_slice_to(bytes, end) ==
    IF end < 0 \/ end > Len(bytes)
        THEN [panic |-> TRUE, bytes |-> <<>>]
        ELSE [panic |-> FALSE, bytes |-> SubSeq(bytes, 1, end)]

(***************************************************************************)
(* reqwest::Result: a transport failure, or what arrived.                  *)
(***************************************************************************)
ReqwestOk(x) == [tag |-> "Ok", kind |-> "", inner |-> x]
\* kind: "request" (send failed), "body" (reading the body failed), "decode"
\* (Response::json could not deserialize the body).
ReqwestErr(kind) == [tag |-> "Err", kind |-> kind, inner |-> JsonErr]

\* An item of Response::bytes_stream: reqwest::Result<Bytes>.
ChunkOk(bytes) == [tag |-> "Ok", bytes |-> bytes]
ChunkErr == [tag |-> "Err", bytes |-> <<>>]

\* The items the transport may deliver.
TransportItems ==
    {ChunkErr}
        \cup {ChunkOk(Frame(id) \o Delimiter) : id \in ContentIds}
        \cup {ChunkOk(<<>>), ChunkOk(<<"\n">>),
              ChunkOk(Frame("partial")),
              ChunkOk(Frame("partial") \o <<"x", "x">>),
              ChunkOk(Frame("partial") \o Delimiter \o Frame("final") \o Delimiter),
              ChunkOk(<<"{", "partial">>),
              ChunkOk(<<"}", "\n", "\n">>)}

(***************************************************************************)
(* The text completion stream: bytes_stream().map(closure).                *)
(***************************************************************************)
\* A plausible slip: the JSON failure folded into the transport layer.
MapChunkCollapsed(item) ==
    IF item.tag = "Err" THEN [panic |-> FALSE, element |-> ReqwestErr("body")]
    ELSE LET cut == Bytes_slice_to(item.bytes, Len(item.bytes) - DELIMITER_LEN)
         IN  IF cut.panic THEN [panic |-> TRUE, element |-> ReqwestErr("")]
             ELSE IF from_slice(cut.bytes).tag = "Err"
                 THEN [panic |-> FALSE, element |-> ReqwestErr("decode")]
                 ELSE [panic |-> FALSE,
                       element |-> ReqwestOk(JsonMapInto(from_slice(cut.bytes)))]

\* The closure given to map: the element for one item, or a panic.
MapChunk(item) ==
    IF item.tag = "Err" THEN [panic |-> FALSE, element |-> ReqwestErr("body")]
    ELSE LET cut == Bytes_slice_to(item.bytes, Len(item.bytes) - DELIMITER_LEN)
         IN  IF cut.panic THEN [panic |-> TRUE, element |-> ReqwestErr("")]
             ELSE [panic |-> FALSE,
                   element |-> ReqwestOk(JsonMapInto(from_slice(cut.bytes)))]

\* A plausible slip: the first chunk read when the stream is made.
Stream_new_eager ==
    [st |-> "open", requested |-> 0,
     delivered |-> <<ChunkOk(Frame("partial") \o Delimiter)>>,
     decoded |-> <<MapChunk(ChunkOk(Frame("partial") \o Delimiter)).element>>,
     released |-> FALSE]

\* The stream as stream() returns it: nothing requested, nothing read.
Stream_new ==
    [st |-> "open", requested |-> 0, delivered |-> <<>>, decoded |-> <<>>,
     released |-> FALSE]

\* next() was called: the stream awaits the transport.
Stream_next(s) == [s EXCEPT !.st = "awaiting", !.requested = @ + 1]

\* The transport delivered an item: it is mapped and yielded; a panic in the
\* closure unwinds through the consumer, which drops the stream.
Stream_poll_item(s, item) ==
    IF MapChunk(item).panic
        THEN [s EXCEPT !.st = "panicked", !.delivered = Append(@, item),
                       !.released = TRUE]
        ELSE [s EXCEPT !.st = "open", !.delivered = Append(@, item),
                       !.decoded = Append(@, MapChunk(item).element)]

\* The transport signalled the end of the body: the stream yields None.
Stream_poll_end(s) == [s EXCEPT !.st = "ended"]

\* A plausible slip: the body kept alive after the stream is gone.
Stream_drop_leaky(s) == [s EXCEPT !.st = "dropped"]

\* The consumer drops the stream: the stream owns the response body, which is
\* dropped with it.
Stream_drop(s) == [s EXCEPT !.st = "dropped", !.released = TRUE]

\* What stream() returns on success: the stream itself is the variable stream.
StreamHandle == [tag |-> "TextCompletionStream"]

InitStream ==
    /\ stream = Stream_new
    /\ IdleParams /\ IdleDecode /\ IdleBuilder

\* The consumer asks for the next element.
RequestNext ==
    /\ stream.st = "open"
    /\ stream' = Stream_next(stream)
    /\ UNCHANGED <<paramVars, decodeVars, builderVars>>

\* The transport delivers its next item.
Deliver ==
    /\ stream.st = "awaiting"
    /\ Len(stream.delivered) < MaxChunks
    /\ \E item \in TransportItems : stream' = Stream_poll_item(stream, item)
    /\ UNCHANGED <<paramVars, decodeVars, builderVars>>

\* The transport signals end-of-stream.
EndOfStream ==
    /\ stream.st = "awaiting"
    /\ stream' = Stream_poll_end(stream)
    /\ UNCHANGED <<paramVars, decodeVars, builderVars>>

\* The consumer abandons the stream, or drops it after its end.
Abandon ==
    /\ stream.st \in {"open", "awaiting", "ended"}
    /\ stream' = Stream_drop(stream)
    /\ UNCHANGED <<paramVars, decodeVars, builderVars>>

NextStream == RequestNext \/ Deliver \/ EndOfStream \/ Abandon

SpecStream == InitStream /\ [][NextStream]_vars

\* The layer of an element that carries its outcome.
ElementClass(e) ==
    IF e.tag = "Err" THEN "transport"
    ELSE IF e.inner.tag = "Err" THEN "json"
    ELSE IF e.inner.inner.tag = "Err" THEN "api"
    ELSE "success"

\* The bytes of a chunk minus its last 2.
RecordBytes(bytes) ==
    IF Len(bytes) >= 2 THEN SubSeq(bytes, 1, Len(bytes) - 2) ELSE <<>>

\* What a delivered item is: a transport failure, or bytes whose record is of
\* the success shape, of the error shape, or of neither.
ChunkClass(item) ==
    IF item.tag = "Err" THEN "transport"
    ELSE IF ~IsJsonObjectText(RecordBytes(item.bytes)) THEN "json"
    ELSE IF SuccessShape(JsonObjectOf(RecordBytes(item.bytes))) THEN "success"
    ELSE IF ErrorShape(JsonObjectOf(RecordBytes(item.bytes))) THEN "api"
    ELSE "json"

\* C1: the decoded sequence has one element per delivered chunk, element i
\* being the decoding of chunk i, in delivery order.
C1_OneElementPerChunk ==
    stream.st \in {"open", "awaiting", "ended", "panicked", "dropped"} =>
        /\ Len(stream.decoded) = Len(stream.delivered)
        /\ \A i \in 1..Len(stream.decoded) :
              ElementClass(stream.decoded[i]) = ChunkClass(stream.delivered[i])

\* C2: every streamed element carries its outcome in the layer of its chunk's
\* kind: outer Err for a transport failure, Ok(Err) for bytes that parse as
\* neither shape, Ok(Ok(Err)) for the error shape, Ok(Ok(Ok)) for the success
\* shape, the payload being the wire's.
C2_FourOutcomes ==
    \A i \in 1..Len(stream.decoded) :
        LET e == stream.decoded[i]
            item == stream.delivered[i]
        IN  /\ ElementClass(e) = ChunkClass(item)
            /\ ChunkClass(item) = "api" =>
                  e.inner.inner.error.status
                      = JsonObjectOf(RecordBytes(item.bytes)).status.n
            /\ ChunkClass(item) = "success" =>
                  e.inner.inner.value.text
                      = JsonObjectOf(RecordBytes(item.bytes)).text.s

\* One stream yielded a JSON failure, a domain failure and a success.
C2_Witness ==
    /\ Len(stream.decoded) = 3
    /\ {ElementClass(stream.decoded[i]) : i \in 1..3} = {"json", "api", "success"}

\* C3: pulling an element never aborts, whatever the length of the chunk.
C3_NeverAborts == stream.st # "panicked"

\* C5: a delivered body that is not valid JSON for either envelope shape is
\* surfaced as a decode error, apart from transport and domain errors.
C5_InvalidJsonIsDecodeError ==
    \A i \in 1..Len(stream.delivered) :
        ChunkClass(stream.delivered[i]) = "json" =>
            /\ i <= Len(stream.decoded)
            /\ ElementClass(stream.decoded[i]) = "json"

\* C9: the chunks taken from the transport never outnumber the elements the
\* consumer requested, and each taken chunk gives one element, once.
C9_LazySinglePass ==
    stream.st # "none" =>
        /\ Len(stream.delivered) <= stream.requested
        /\ Len(stream.decoded) <= Len(stream.delivered)
        /\ \A i \in 1..Len(stream.decoded) :
              stream.decoded[i] = MapChunk(stream.delivered[i]).element

\* A second element was requested and the transport has not been read for it.
C9_Witness ==
    /\ stream.st = "awaiting"
    /\ stream.requested = 2
    /\ Len(stream.delivered) = 1
    /\ Len(stream.decoded) = 1

\* C10: once the consumer has abandoned the stream the transport resource is
\* released, and no further chunk is read.
C10_AbandonReleases ==
    /\ [](stream.st = "dropped" => stream.released)
    /\ [][stream.st = "dropped" =>
            /\ stream'.st = "dropped"
            /\ stream'.delivered = stream.delivered]_vars

\* The stream was abandoned after its first element.
C10_Witness ==
    /\ stream.st = "dropped"
    /\ stream.released
    /\ stream.requested = 1
    /\ Len(stream.decoded) = 1

\* The element the bytes of one chunk stand for, by themselves: the decoding
\* of the bytes minus the last 2.
ElementOfChunk(item) ==
    IF item.tag = "Err" THEN ReqwestErr("body")
    ELSE ReqwestOk(JsonMapInto(from_slice(RecordBytes(item.bytes))))

\* C20: the stream decoder keeps no state across chunks: every delivered chunk
\* has its own element, which is the decoding of that chunk's bytes minus the
\* last 2 and of nothing else, whatever the other chunks are and whether or
\* not they failed, be the chunk one record, a part of a record, two records
\* or bytes without the delimiter; and no chunk ends the sequence.
C20_ElementOfItsChunkAlone ==
    stream.st \in {"open", "awaiting", "ended", "panicked", "dropped"} =>
        /\ stream.st # "panicked"
        /\ \A i \in 1..Len(stream.delivered) :
              /\ i <= Len(stream.decoded)
              /\ stream.decoded[i] = ElementOfChunk(stream.delivered[i])

(***************************************************************************)
(* TopP, TopK and Stop.                                                    *)
(***************************************************************************)
NoneF64 == [some |-> FALSE, v |-> F64(0)]

\* A plausible slip: the open interval.
TopP_new_open(top_p) ==
    IF F64Le(F64(0), top_p) /\ F64Le(top_p, F64(10)) /\ top_p # F64(0) /\ top_p # F64(10)
        THEN Some(top_p)
        ELSE NoneF64

\* (0.0..=1.0).contains(&top_p)
TopP_new(top_p) ==
    IF F64Le(F64(0), top_p) /\ F64Le(top_p, F64(10)) THEN Some(top_p) ELSE NoneF64

\* BoundedU16<TOP_K_MIN, TOP_K_MAX>
TOP_K_MIN == 1
TOP_K_MAX == 1000
\* A plausible slip: the range counted from 0.
TopK_new_from_zero(n) == IF 0 <= n /\ n < TOP_K_MAX THEN Some(n) ELSE None
TopK_new(n) == IF TOP_K_MIN <= n /\ n <= TOP_K_MAX THEN Some(n) ELSE None

\* ArrayVec<String, STOP_CAPACITY>
STOP_CAPACITY == 5
\* A plausible slip: no check of the capacity.
Stop_try_from_unchecked(strings) == Some(strings)
Stop_try_from(strings) ==
    IF Len(strings) <= STOP_CAPACITY THEN Some(strings) ELSE NoneSeq
\* ArrayVec::try_push: a full list refuses the element and is left as it was.
Stop_try_push(self, element) ==
    IF Len(self) < STOP_CAPACITY
        THEN [ok |-> TRUE, self |-> Append(self, element)]
        ELSE [ok |-> FALSE, self |-> self]

(***************************************************************************)
(* TextCompletionRequest and its derived Serialize.                        *)
(***************************************************************************)
TextCompletionRequest(prompt, max_tokens, temperature, top_k, top_p, stream_, stop) ==
    [prompt |-> prompt, max_tokens |-> max_tokens, temperature |-> temperature,
     top_k |-> top_k, top_p |-> top_p, stream |-> stream_, stop |-> stop]

OptionalKeys == {"max_tokens", "temperature", "top_k", "top_p", "stream", "stop"}

\* A value of the payload: null, or a JSON value.
PayloadNull == [null |-> TRUE, v |-> 0]
PayloadValue(v) == [null |-> FALSE, v |-> v]

\* serde_json writes an f64 that is not finite as null.
SerializeF64(x) == IF x.nan THEN PayloadNull ELSE PayloadValue(x)

SerializeField(key, v) ==
    IF key \in {"temperature", "top_p"} THEN SerializeF64(v) ELSE PayloadValue(v)

\* A plausible slip: skip_serializing_if left out, None written as null.
SerializeWithNulls(request_) ==
    [key \in {"prompt"} \cup OptionalKeys |->
        IF key = "prompt" THEN PayloadValue(request_.prompt)
        ELSE IF request_[key].some THEN SerializeField(key, request_[key].v)
        ELSE PayloadNull]

\* #[derive(Serialize)] with skip_serializing_if = "Option::is_none" on every
\* optional field: the payload, a JSON object.
Serialize(request_) ==
    [key \in {"prompt"} \cup {k \in OptionalKeys : request_[k].some} |->
        IF key = "prompt" THEN PayloadValue(request_.prompt)
        ELSE SerializeField(key, request_[key].v)]

(***************************************************************************)
(* Engine and TextCompletionBuilder.                                       *)
(***************************************************************************)
Engine_new(definition) == [definition |-> definition]

TextCompletionBuilder_new(engine, prompt) ==
    [engine |-> engine, prompt |-> prompt, max_tokens |-> None,
     temperature |-> NoneF64, top_k |-> None, top_p |-> NoneF64]

TextCompletionBuilder_max_tokens(self, max_tokens) ==
    [self EXCEPT !.max_tokens = Some(max_tokens)]

TextCompletionBuilder_temperature(self, temperature) ==
    [self EXCEPT !.temperature = Some(temperature)]

TextCompletionBuilder_top_k(self, top_k) == [self EXCEPT !.top_k = Some(top_k)]

TextCompletionBuilder_top_p_clearing(self, top_p) ==
    [self EXCEPT !.top_p = Some(top_p), !.top_k = None]
TextCompletionBuilder_top_p(self, top_p) == [self EXCEPT !.top_p = Some(top_p)]

\* The request addresses the engine of the builder.
TextCompletionBuilder_url(self) ==
    [engine_id |-> EngineDefinition_id(self.engine.definition),
     endpoint |-> "completions"]

\* What the transport answers to a request that is not streamed: the send
\* fails, reading the body fails, or a body arrives.
SendFailed == [kind |-> "send_failed", body |-> <<>>]
BodyFailed == [kind |-> "body_failed", body |-> <<>>]
Body(bytes) == [kind |-> "body", body |-> bytes]

Responses ==
    {SendFailed, BodyFailed, Body(<<"x">>)}
        \cup {Body(Frame(id)) : id \in ContentIds}

\* .send().await?.json::<UntaggedResult<_>>().await.map(Into::into)
Response_json_into(response) ==
    IF response.kind = "send_failed" THEN ReqwestErr("request")
    ELSE IF response.kind = "body_failed" THEN ReqwestErr("body")
    ELSE IF from_slice(response.body).tag = "Err" THEN ReqwestErr("decode")
    ELSE ReqwestOk(Result_from(from_slice(response.body).inner))

\* The request now_impl builds from the builder.
now_impl_request(self, stop) ==
    TextCompletionRequest(self.prompt, self.max_tokens, self.temperature,
                          self.top_k, self.top_p, NoneBool, stop)

\* A plausible slip: a stop list sent with a streamed request.
stream_request_with_stop(self) ==
    TextCompletionRequest(self.prompt, self.max_tokens, self.temperature,
                          self.top_k, self.top_p, Some(TRUE), Some(<<"RwLock">>))

\* The request stream builds from the builder.
stream_request(self) ==
    TextCompletionRequest(self.prompt, self.max_tokens, self.temperature,
                          self.top_k, self.top_p, Some(TRUE), NoneSeq)

\* The request as sent: where to, and the JSON payload.
Sent(self, request_) ==
    [url |-> TextCompletionBuilder_url(self), payload |-> Serialize(request_)]

(***************************************************************************)
(* Spec: a builder is configured and consumed by one terminal operation.   *)
(***************************************************************************)
\* The inputs the model draws from.
Temperatures == {F64(5), F64(15), NaN}
TopKValues == {0, TOP_K_MIN, 128, TOP_K_MAX, TOP_K_MAX + 1}
TopPValues == {F64(-1), F64(0), F64(5), F64(10), F64(11), NaN}
StopLists == {[i \in 1..n |-> "RwLock"] : n \in 0..MaxStop}

\* The operations that consume the builder and send its request.
TerminalOperations == {"now", "now_until", "stream"}

\* The last setter called on the builder and its argument; none before the
\* first call and after a terminal operation.
NoCall == [setter |-> "none", value |-> 0]
Call(setter, value) == [setter |-> setter, value |-> value]

Init ==
    /\ \E d \in EngineDefinitions :
          builder = TextCompletionBuilder_new(Engine_new(d), "fn main() {")
    /\ pc = "building"
    /\ op = [kind |-> "none", stop |-> <<>>, call |-> NoCall]
    /\ request = [kind |-> "none"]
    /\ outcome = [kind |-> "none"]
    /\ IdleParams /\ IdleDecode /\ IdleStream

\* builder.max_tokens(m), m any MaxTokens: one that MaxTokens::new returned for
\* some engine definition.
SetMaxTokens ==
    /\ pc = "building"
    /\ \E v \in TokenValues, d \in EngineDefinitions :
          /\ MaxTokens_new(v, d).some
          /\ builder' = TextCompletionBuilder_max_tokens(builder, MaxTokens_new(v, d).v)
          /\ op' = [op EXCEPT !.call = Call("max_tokens", MaxTokens_new(v, d).v)]
    /\ UNCHANGED <<pc, request, outcome, paramVars, decodeVars, streamVars>>

\* builder.temperature(t), t any f64.
SetTemperature ==
    /\ pc = "building"
    /\ \E t \in Temperatures :
          /\ builder' = TextCompletionBuilder_temperature(builder, t)
          /\ op' = [op EXCEPT !.call = Call("temperature", t)]
    /\ UNCHANGED <<pc, request, outcome, paramVars, decodeVars, streamVars>>

\* builder.top_k(k), k any TopK.
SetTopK ==
    /\ pc = "building"
    /\ \E n \in TopKValues :
          /\ TopK_new(n).some
          /\ builder' = TextCompletionBuilder_top_k(builder, TopK_new(n).v)
          /\ op' = [op EXCEPT !.call = Call("top_k", TopK_new(n).v)]
    /\ UNCHANGED <<pc, request, outcome, paramVars, decodeVars, streamVars>>

\* builder.top_p(p), p any TopP.
SetTopP ==
    /\ pc = "building"
    /\ \E p \in TopPValues :
          /\ TopP_new(p).some
          /\ builder' = TextCompletionBuilder_top_p(builder, TopP_new(p).v)
          /\ op' = [op EXCEPT !.call = Call("top_p", TopP_new(p).v)]
    /\ UNCHANGED <<pc, request, outcome, paramVars, decodeVars, streamVars>>

\* builder.now()
Now ==
    /\ pc = "building"
    /\ pc' = "done"
    /\ op' = [kind |-> "now", stop |-> <<>>, call |-> NoCall]
    /\ request' = Sent(builder, now_impl_request(builder, NoneSeq))
    /\ \E response \in Responses : outcome' = Response_json_into(response)
    /\ UNCHANGED <<builder, paramVars, decodeVars, streamVars>>

\* builder.now_until(stop), stop any Stop.
NowUntil ==
    /\ pc = "building"
    /\ pc' = "done"
    /\ \E strings \in StopLists :
          /\ Stop_try_from(strings).some
          /\ op' = [kind |-> "now_until", stop |-> Stop_try_from(strings).v,
                    call |-> NoCall]
          /\ request' = Sent(builder, now_impl_request(builder, Stop_try_from(strings)))
    /\ \E response \in Responses : outcome' = Response_json_into(response)
    /\ UNCHANGED <<builder, paramVars, decodeVars, streamVars>>

\* builder.stream(): the request is sent; no chunk of the answer is read.
Stream ==
    /\ pc = "building"
    /\ pc' = "done"
    /\ op' = [kind |-> "stream", stop |-> <<>>, call |-> NoCall]
    /\ request' = Sent(builder, stream_request(builder))
    /\ \/ /\ outcome' = ReqwestErr("request")
          /\ UNCHANGED stream
       \/ /\ outcome' = ReqwestOk(StreamHandle)
          /\ stream' = Stream_new
    /\ UNCHANGED <<builder, paramVars, decodeVars>>

Next ==
    \/ SetMaxTokens \/ SetTemperature \/ SetTopK \/ SetTopP
    \/ Now \/ NowUntil \/ Stream

Spec == Init /\ [][Next]_vars

\* The keys a terminal operation adds to those of the fields that were set.
KeysSet ==
    {"prompt"}
        \cup {k \in {"max_tokens", "temperature", "top_k", "top_p"} : builder[k].some}
        \cup (IF op.kind = "now_until" THEN {"stop"} ELSE {})
        \cup (IF op.kind = "stream" THEN {"stream"} ELSE {})

\* C4: a request is never sent with an invalid parameter: max_tokens within the
\* token ceiling of the builder's engine, top_p in [0.0, 1.0], top_k in
\* [1, 1000], at most 5 stop strings.
C4_NoInvalidRequest ==
    pc = "done" =>
        /\ "max_tokens" \in DOMAIN request.payload =>
              request.payload["max_tokens"].v
                  <= EngineDefinition_max_tokens(builder.engine.definition)
        /\ "top_p" \in DOMAIN request.payload =>
              /\ ~request.payload["top_p"].null
              /\ request.payload["top_p"].v.t \in 0..10
        /\ "top_k" \in DOMAIN request.payload =>
              request.payload["top_k"].v \in 1..1000
        /\ "stop" \in DOMAIN request.payload =>
              Len(request.payload["stop"].v) <= 5

\* C8 as stated: the payload holds prompt and exactly the keys of the fields
\* that were set, and none of its values is null.
C8_ExactKeysNoNull ==
    pc = "done" =>
        /\ DOMAIN request.payload = KeysSet
        /\ \A k \in DOMAIN request.payload : ~request.payload[k].null

\* C8 amended: the payload holds prompt and exactly the keys of the fields that
\* were set; no value is null but that of a temperature set to a value that is
\* not finite.
C8_ExactKeysNullOnlyForNonFiniteTemperature ==
    pc = "done" =>
        /\ DOMAIN request.payload = KeysSet
        /\ \A k \in DOMAIN request.payload :
              request.payload[k].null => (k = "temperature" /\ builder.temperature.v.nan)
        /\ request.payload["prompt"].v = builder.prompt
        /\ \A k \in {"max_tokens", "top_k", "top_p"} :
              builder[k].some => request.payload[k] = PayloadValue(builder[k].v)
        /\ (builder.temperature.some /\ ~builder.temperature.v.nan) =>
              request.payload["temperature"] = PayloadValue(builder.temperature.v)
        /\ op.kind = "now_until" => request.payload["stop"] = PayloadValue(op.stop)
        /\ op.kind = "stream" => request.payload["stream"] = PayloadValue(TRUE)

\* now_until was called with max_tokens set, the temperature set to NaN and
\* the other fields unset.
C8_Witness ==
    /\ pc = "done" /\ op.kind = "now_until"
    /\ builder.max_tokens.some /\ builder.temperature.some
    /\ ~builder.top_k.some /\ ~builder.top_p.some
    /\ DOMAIN request.payload = {"prompt", "max_tokens", "temperature", "stop"}
    /\ request.payload["temperature"].null

\* C15: the builder has the four terminal operations now, now_until, stream
\* and stream_until, a streamed completion being requested with a stop list
\* by the last: its payload carries stream = true and the stop list.
C15_FourTerminalOperations ==
    pc = "done" =>
        /\ op.kind \in TerminalOperations
        /\ TerminalOperations = {"now", "now_until", "stream", "stream_until"}

\* C15, amended: the builder has the three terminal operations now, now_until
\* and stream; only stream sends stream = true and only now_until sends a
\* stop list, so no payload carries both.
C15_ThreeTerminalOperations ==
    pc = "done" =>
        /\ op.kind \in TerminalOperations
        /\ TerminalOperations = {"now", "now_until", "stream"}
        /\ "stream" \in DOMAIN request.payload <=> op.kind = "stream"
        /\ "stop" \in DOMAIN request.payload <=> op.kind = "now_until"
        /\ op.kind = "stream" => request.payload["stream"] = PayloadValue(TRUE)
        /\ op.kind = "now_until" => request.payload["stop"] = PayloadValue(op.stop)

\* stream sent a request with stream = true and top_k, and no stop list.
C15_Witness ==
    /\ pc = "done" /\ op.kind = "stream"
    /\ DOMAIN request.payload = {"prompt", "top_k", "stream"}
    /\ request.payload["stream"] = PayloadValue(TRUE)
    /\ outcome = ReqwestOk(StreamHandle)

\* The optional fields a setter can replace.
SetterFields == {"max_tokens", "temperature", "top_k", "top_p"}

\* C13: while the builder is configured, each optional field holds the value
\* of the last call to its own setter, or is unset if that setter was never
\* called: all four start unset, the setter just called leaves its argument in
\* its own field, and a setter call changes no other field, not the prompt
\* and not the engine, and sends nothing.
C13_SettersReplaceOwnField ==
    /\ [](pc = "building" /\ op.call.setter = "none" =>
             \A k \in SetterFields : ~builder[k].some)
    /\ [](pc = "building" /\ op.call.setter # "none" =>
             /\ op.call.setter \in SetterFields
             /\ builder[op.call.setter].some
             /\ builder[op.call.setter].v = op.call.value)
    /\ [][(pc = "building" /\ pc' = "building") =>
             /\ \A k \in SetterFields \ {op'.call.setter} : builder'[k] = builder[k]
             /\ builder'.engine = builder.engine
             /\ builder'.prompt = builder.prompt
             /\ request' = request /\ outcome' = outcome /\ stream' = stream]_vars

\* top_p was called last, after top_k and after a max_tokens above the token
\* ceiling of the builder's engine; the earlier values are still in place.
C13_Witness ==
    /\ pc = "building"
    /\ op.call.setter = "top_p" /\ op.call.value = F64(5)
    /\ builder.top_p = Some(F64(5))
    /\ builder.top_k = Some(128)
    /\ builder.max_tokens.some
    /\ builder.max_tokens.v > EngineDefinition_max_tokens(builder.engine.definition)
    /\ ~builder.temperature.some

(***************************************************************************)
(* SpecParams: a validating constructor applied to drawn inputs.           *)
(***************************************************************************)

\* The string lists Stop is built from: of 0 to one more than the capacity
\* strings, in two orders.
StopStrings == <<"a", "b", "c", "d", "e", "f">>
StopInputs ==
    {SubSeq(StopStrings, 1, n) : n \in 0..Len(StopStrings)}
        \cup {[i \in 1..n |-> StopStrings[Len(StopStrings) + 1 - i]] :
                 n \in 0..Len(StopStrings)}

\* What id(), max_tokens() and to_custom_engine_definition() return for one
\* engine definition.
Lookups(d) ==
    [id |-> EngineDefinition_id(d), max_tokens |-> EngineDefinition_max_tokens(d),
     custom |-> to_custom_engine_definition(d)]

InitParams ==
    /\ \/ \E v \in TokenValues, d \in EngineDefinitions :
             arg = [kind |-> "MaxTokens", value |-> v, engine_definition |-> d,
                    applied |-> FALSE]
       \/ \E d \in EngineDefinitions :
             arg = [kind |-> "EngineDefinition", engine_definition |-> d,
                    applied |-> FALSE]
       \/ \E p \in TopPValues : arg = [kind |-> "TopP", value |-> p, applied |-> FALSE]
       \/ \E n \in TopKValues : arg = [kind |-> "TopK", value |-> n, applied |-> FALSE]
       \/ \E strings \in StopInputs :
             arg = [kind |-> "Stop", value |-> strings, applied |-> FALSE,
                    pushed |-> <<>>, refused |-> FALSE]
    /\ made = None
    /\ IdleDecode /\ IdleBuilder /\ IdleStream

NewMaxTokens ==
    /\ arg.kind = "MaxTokens"
    /\ ~arg.applied
    /\ made' = MaxTokens_new(arg.value, arg.engine_definition)
    /\ arg' = [arg EXCEPT !.applied = TRUE]
    /\ UNCHANGED <<decodeVars, builderVars, streamVars>>

\* id(), max_tokens() and to_custom_engine_definition() of one definition.
LookUp ==
    /\ arg.kind = "EngineDefinition"
    /\ ~arg.applied
    /\ made' = Some(Lookups(arg.engine_definition))
    /\ arg' = [arg EXCEPT !.applied = TRUE]
    /\ UNCHANGED <<decodeVars, builderVars, streamVars>>

NewTopP ==
    /\ arg.kind = "TopP"
    /\ ~arg.applied
    /\ made' = TopP_new(arg.value)
    /\ arg' = [arg EXCEPT !.applied = TRUE]
    /\ UNCHANGED <<decodeVars, builderVars, streamVars>>

NewTopK ==
    /\ arg.kind = "TopK"
    /\ ~arg.applied
    /\ made' = TopK_new(arg.value)
    /\ arg' = [arg EXCEPT !.applied = TRUE]
    /\ UNCHANGED <<decodeVars, builderVars, streamVars>>

\* Stop::try_from(&strings[..])
NewStop ==
    /\ arg.kind = "Stop"
    /\ ~arg.applied
    /\ made' = Stop_try_from(arg.value)
    /\ arg' = [arg EXCEPT !.applied = TRUE]
    /\ UNCHANGED <<decodeVars, builderVars, streamVars>>

\* stop.try_push(string) on a Stop that was built, until one is refused.
PushStop ==
    /\ arg.kind = "Stop"
    /\ arg.applied /\ made.some /\ ~arg.refused
    /\ LET push == Stop_try_push(made.v, "g") IN
         /\ made' = Some(push.self)
         /\ arg' = [arg EXCEPT !.pushed = IF push.ok THEN Append(@, "g") ELSE @,
                                !.refused = ~push.ok]
    /\ UNCHANGED <<decodeVars, builderVars, streamVars>>

NextParams == NewMaxTokens \/ LookUp \/ NewTopP \/ NewTopK \/ NewStop \/ PushStop

SpecParams == InitParams /\ [][NextParams]_vars

\* C7: MaxTokens::new(v, definition) is Some iff v <= the definition's token
\* ceiling, and on success inner() returns v.
C7_MaxTokensInclusiveBound ==
    (arg.kind = "MaxTokens" /\ arg.applied) =>
        /\ made.some <=> arg.value <= EngineDefinition_max_tokens(arg.engine_definition)
        /\ made.some => MaxTokens_inner(made.v) = arg.value

\* The boundary v = c is accepted, for the ceiling of GptJ6B.
C7_Witness ==
    /\ arg.kind = "MaxTokens" /\ arg.applied
    /\ arg.engine_definition = GptJ6B
    /\ arg.value = GptJ6B_MAX_TOKENS
    /\ made = Some(GptJ6B_MAX_TOKENS)

\* C14: the token ceiling of a well-known engine is 1024 unless the engine
\* overrides it, and exactly two well-known engines override it to 2048.
C14_TwoEnginesOverride ==
    (arg.kind = "EngineDefinition" /\ arg.applied
            /\ arg.engine_definition \in KnownEngineDefinitions) =>
        /\ made.v.max_tokens \in {1024, 2048}
        /\ Cardinality({d \in KnownEngineDefinitions :
                            EngineDefinition_max_tokens(d) = 2048}) = 2

\* C14, amended: the token ceiling of a well-known engine is 1024 unless the
\* engine overrides it, and exactly one well-known engine, GptJ6B, overrides
\* it, to 2048; Boris6B and FairseqGpt13B report 1024.
C14_OnlyGptJ6BOverrides ==
    (arg.kind = "EngineDefinition" /\ arg.applied
            /\ arg.engine_definition \in KnownEngineDefinitions) =>
        /\ made.v.max_tokens = (IF arg.engine_definition = GptJ6B THEN 2048 ELSE 1024)
        /\ {d \in KnownEngineDefinitions : EngineDefinition_max_tokens(d) = 2048}
              = {GptJ6B}

\* The ceiling of FairseqGpt13B was looked up: the default.
C14_Witness ==
    /\ arg.kind = "EngineDefinition" /\ arg.applied
    /\ arg.engine_definition = FairseqGpt13B
    /\ made.v.max_tokens = 1024

\* C16: TopP::new(p) is Some exactly when 0.0 <= p <= 1.0, both boundaries
\* included, and None for p below 0.0, above 1.0 or NaN.
C16_TopPClosedUnitInterval ==
    (arg.kind = "TopP" /\ arg.applied) =>
        /\ made.some <=> (~arg.value.nan /\ 0 <= arg.value.t /\ arg.value.t <= 10)
        /\ made.some => made.v = arg.value

\* The boundary 1.0 was accepted.
C16_Witness ==
    /\ arg.kind = "TopP" /\ arg.applied
    /\ arg.value = F64(10)
    /\ made = Some(F64(10))

\* C17: the construction of a TopK succeeds exactly for the integers of
\* [1, 1000]: 1 and 1000 are accepted, 0 and 1001 rejected.
C17_TopKRange ==
    (arg.kind = "TopK" /\ arg.applied) =>
        /\ made.some <=> (1 <= arg.value /\ arg.value <= 1000)
        /\ made.some => made.v = arg.value

\* The boundary 1000 was accepted.
C17_Witness ==
    /\ arg.kind = "TopK" /\ arg.applied
    /\ arg.value = 1000
    /\ made = Some(1000)

\* C18: a Stop built from 0 to 5 strings holds those strings in the order
\* given; building one from 6 or more fails, adding a string to a list of 5
\* fails, and no Stop has more than 5 entries.
C18_StopAtMostFive ==
    (arg.kind = "Stop" /\ arg.applied) =>
        /\ made.some <=> Len(arg.value) <= 5
        /\ made.some =>
              /\ made.v = arg.value \o arg.pushed
              /\ Len(made.v) <= 5
              /\ arg.refused => Len(made.v) = 5

\* A list built from 4 strings took a fifth and refused a sixth.
C18_Witness ==
    /\ arg.kind = "Stop" /\ arg.applied
    /\ arg.value = <<"f", "e", "d", "c">>
    /\ arg.refused
    /\ made = Some(<<"f", "e", "d", "c", "g">>)

\* C19: for every engine definition, id() and max_tokens() return a value and
\* agree with to_custom_engine_definition(): the ID and MAX_TOKENS constants
\* of a well-known variant, the stored values of a Custom one.
C19_LookupsAgree ==
    (arg.kind = "EngineDefinition" /\ arg.applied) =>
        /\ made.some
        /\ made.v.id = made.v.custom.id
        /\ made.v.max_tokens = made.v.custom.max_tokens
        /\ arg.engine_definition.tag = "Custom" =>
              made.v.custom = arg.engine_definition.custom
        /\ arg.engine_definition.tag # "Custom" =>
              made.v.custom = AS_CUSTOM_ENGINE_DEFINITION(arg.engine_definition.tag)

\* The lookups of a Custom definition returned the stored values.
C19_Witness ==
    /\ arg.kind = "EngineDefinition" /\ arg.applied
    /\ arg.engine_definition = Custom(CustomEngineDefinition("custom", 2))
    /\ made.v.id = "custom" /\ made.v.max_tokens = 2

\* The lookups of a well-known definition returned its constants.
C19_WitnessKnown ==
    /\ arg.kind = "EngineDefinition" /\ arg.applied
    /\ arg.engine_definition = GptJ6B
    /\ made.v.id = "gptj_6B" /\ made.v.max_tokens = GptJ6B_MAX_TOKENS

====
